---- MODULE Spec2Model ----
(***************************************************************************)
(* GreenSupply AI dashboard client (frontend/script.js) together with the  *)
(* streaming engine it talks to.  The client is translated from the        *)
(* JavaScript source; the engine (tick driver, truck store, alert log,     *)
(* history buffers, broadcast hub) is not part of the frontend sources and  *)
(* is modelled from the design document.                                   *)
(***************************************************************************)
EXTENDS Integers, Sequences, FiniteSets, TLC

\* ------------------------------------------------------------------------
\* Bounds of the model
\* ------------------------------------------------------------------------
MaxTicks == 1
MaxSockets == 3
MaxQuestions == 1
MaxTrucks == 2
MaxExtraFrames == 1
MaxUsers == 2
MaxReports == 2
MaxDbCalls == 1
MaxAuthCalls == 1
LateTick == 29
LateAlerts == 200

\* ------------------------------------------------------------------------
\* Program constants
\* ------------------------------------------------------------------------
ChartCap == 30
AlertCap == 200
HistoryCap == 30
AlertLogCap == 200
DefaultMaxTokens == 10000
SampleTokenUsage == 1200

TruckIds == 1..MaxTrucks
SocketIds == 1..MaxSockets
Users == 1..MaxUsers
\* the engine as the page finds it: freshly started, or well into a run
StartPoints == {<<0, 0>>, <<LateTick, LateAlerts>>}
InitialFleet == TruckIds
\* texts typed into #ai-input
Questions == {<<>>, <<" ">>, <<"e", "t", "a">>, <<" ", "a", " ", "b", " ">>}

\* ------------------------------------------------------------------------
\* Sequence helpers (Array.prototype.slice / shift / reduce)
\* ------------------------------------------------------------------------
Max(a, b) == IF a >= b THEN a ELSE b

\* arr.slice(-n)
LastN(s, n) == IF Len(s) <= n THEN s ELSE SubSeq(s, Len(s) - n + 1, Len(s))

\* the consecutive integers a..b as a sequence
Range(a, b) == [i \in 1..Max(0, b - a + 1) |-> a + i - 1]

RECURSIVE SumOver(_, _)
SumOver(S, f) ==
    IF S = {} THEN 0
    ELSE LET x == CHOOSE y \in S : TRUE
         IN f[x] + SumOver(S \ {x}, f)

\* String.prototype.trim on a string given as a sequence of characters
RECURSIVE TrimStart(_)
TrimStart(s) == IF s # <<>> /\ Head(s) = " " THEN TrimStart(Tail(s)) ELSE s
RECURSIVE TrimEnd(_)
TrimEnd(s) ==
    IF s # <<>> /\ s[Len(s)] = " " THEN TrimEnd(SubSeq(s, 1, Len(s) - 1)) ELSE s
Trim(s) == TrimEnd(TrimStart(s))

\* Math.round(num / den) for num >= 0, den > 0 (round half up)
MathRound(num, den) == (2 * num + den) \div (2 * den)

\* ------------------------------------------------------------------------
\* Engine: truck records produced by the generator (seeded, deterministic)
\* ------------------------------------------------------------------------
EtaOf(id, t) == (7 * id + 13 * t) % 60
TempOf(id, t) == 22 + ((5 * id + 11 * t) % 24)
SpeedOf(id, t) == 30 + ((11 * id + 7 * t) % 50)

RiskLevelOf(temp) ==
    IF temp < 25 \/ temp > 42 THEN "CRITICAL"
    ELSE IF temp < 28 \/ temp > 38 THEN "HIGH"
    ELSE "LOW"

\* the record of truck id as of tick t; field tick is the tick that wrote it
TruckRec(id, t) ==
    [truck_id |-> id, tick |-> t, eta_minutes |-> EtaOf(id, t),
     speed |-> SpeedOf(id, t), temperature |-> TempOf(id, t),
     risk_level |-> RiskLevelOf(TempOf(id, t))]

TruckTable(ids, t) == {TruckRec(id, t) : id \in ids}

\* a mean kept exact as numerator / denominator
Mean(ids, f) == [num |-> SumOver(ids, f), den |-> Cardinality(ids)]

FleetStats(ids, t) ==
    [avg_fleet_speed |-> Mean(ids, [id \in ids |-> SpeedOf(id, t)])]

HighRisk(ids, t) ==
    {id \in ids : RiskLevelOf(TempOf(id, t)) \in {"HIGH", "CRITICAL"}}

FleetRisk(ids, t) ==
    [overall_score |-> (100 * Cardinality(HighRisk(ids, t))) \div Cardinality(ids),
     high_risk_count |-> Cardinality(HighRisk(ids, t))]

EtaSample(ids, t) ==
    [timestamp |-> t, avg_eta |-> Mean(ids, [id \in ids |-> EtaOf(id, t)])]
SpeedSample(ids, t) ==
    [timestamp |-> t, avg_speed |-> FleetStats(ids, t).avg_fleet_speed]
RiskSample(ids, t) ==
    [timestamp |-> t, risk_score |-> FleetRisk(ids, t).overall_score]

\* history buffer append with FIFO eviction at HistoryCap
HistAppend(buf, sample) == LastN(Append(buf, sample), HistoryCap)

\* alert log append with FIFO eviction at AlertLogCap
LogAppend(log, new) == LastN(log \o new, AlertLogCap)

\* the truck longest en route (least id) may complete its route in a tick and
\* is then retired; a re-seeded truck keeps its id
Oldest(ids) == CHOOSE r \in ids : \A x \in ids : r <= x
NextFleets(ids) ==
    {ids} \cup {ids \ {Oldest(ids)} : r \in {x \in ids : Cardinality(ids) > 1}}

\* the temperature rule is fired for a truck outside [28, 38]
Fired(id, t) == RiskLevelOf(TempOf(id, t)) # "LOW"

\* edge-triggered: trucks whose rule is fired at tick t + 1 and was not at t
NewlyFired(prev, next, t) ==
    {id \in next : Fired(id, t + 1) /\ ~(id \in prev /\ Fired(id, t))}


\* ------------------------------------------------------------------------
\* State
\* ------------------------------------------------------------------------
VARIABLES
    \* engine
    tick,            \* number of the current tick
    ticksDone,       \* ticks performed since the page was loaded
    store,           \* ids of the trucks in the truck state store
    alertLog,        \* the engine's alert log (alerts are generation numbers)
    alertsMade,      \* number of alerts generated so far
    etaHist, speedHist, riskHist,   \* the engine's history buffers
    \* a viewer connected since tick 0 that has handled every update
    truckData0,
    extraFrames,     \* pong, unknown and malformed frames the hub has sent
    aiInFlight,      \* questions received by the hub, not yet answered
    restInFlight,    \* requests to /api/ai/ask that have not completed
    \* client (script.js)
    pageReady,       \* the dashboard initialisation callback has run
    ws,              \* socket held by variable ws, 0 for null
    nSockets,        \* number of WebSocket objects created so far
    sockState,       \* per socket: unused / connecting / open / closed
    inbox,           \* per socket: messages sent by the hub, not yet delivered
    reconnectTimer,  \* TRUE while the reconnect interval is set
    connStatus,      \* text of #ws-status-text
    truckData, alertsList, chartData, totalAlertCount,
    statTotalTrucks, \* text of #stat-total-trucks
    tempCompliance,  \* data of charts.tempCompliance
    chatLog,         \* messages of #ai-chat-messages
    typingCount,     \* number of #typing-indicator elements
    wsOut,           \* messages passed to ws.send
    restOut,         \* bodies POSTed to /api/ai/ask
    tokenUsed,       \* number shown in #token-used, <<>> before the first
    tokenBar,        \* width of #token-bar-fill in percent, as <<num, den>>
    sourceBadge,     \* text of #ai-source-badge
    \* record of what the client has done
    lastMsg,         \* the message handled last
    maxStreamApplied, \* greatest tick of a stream_update applied so far
    received,        \* the last AlertCap alerts received, in arrival order
    counted,         \* every alert added to totalAlertCount, in order
    lastReply,       \* the ai_response handled last
    lastFrame,       \* the frame handed to ws.onmessage last
    \* dashboard page: auth guard (auth.js)
    currentUser,     \* uid held by currentUser, 0 for null
    guardPending,    \* users whose guard handler awaits getUserProfile
    appVisible,      \* showApp(true) has run
    initCount,       \* runs of the dashboard initialisation callback
    location,        \* window.location of the dashboard page
    reportLog,       \* the auth-state notifications so far: uid, 0 for none
    \* dashboard page: Firestore service (firebase-init.js)
    dbCall,          \* the operation in flight and the request it awaits
    dbCalls,         \* operations called so far
    dbLog,           \* requests issued to Firestore, with currentUser then
    dbReturn,        \* what the last finished operation returned
    \* auth page (auth.js); accounts and signedIn are held by Firebase Auth
    accounts,        \* users that have an account
    signedIn,        \* the user Firebase Auth has signed in, 0 for none
    authCall,        \* the auth function in flight and the step it awaits
    authCalls,       \* auth functions called so far
    authLoading,     \* showAuthLoading(true) is in effect
    authMessage,     \* type of the message shown in #auth-message
    redirectTimer,   \* a setTimeout of a success path is pending
    pageGuardTimer,  \* the setTimeout of initAuthPageGuard is pending
    authLocation,    \* window.location of the auth page
    authLog          \* the finished calls with what they did

engineVars == <<tick, ticksDone, store, alertLog, alertsMade,
                etaHist, speedHist, riskHist, truckData0, extraFrames>>
connVars == <<pageReady, ws, nSockets, sockState, reconnectTimer, connStatus>>
fleetVars == <<truckData, alertsList, chartData, totalAlertCount,
               statTotalTrucks, tempCompliance>>
chatDisplay == <<chatLog, typingCount, tokenUsed, tokenBar, sourceBadge>>
chatVars == <<chatDisplay, wsOut, restOut, aiInFlight, restInFlight>>
clientTrace == <<lastMsg, maxStreamApplied, received, counted, lastReply>>
traceVars == <<clientTrace, lastFrame>>
guardVars == <<currentUser, guardPending, appVisible, initCount, location,
               reportLog>>
dbVars == <<dbCall, dbCalls, dbLog, dbReturn>>
authPageVars == <<accounts, signedIn, authCall, authCalls, authLoading,
                  authMessage, redirectTimer, pageGuardTimer, authLocation,
                  authLog>>
userVars == <<guardVars, dbVars, authPageVars>>
vars == <<engineVars, connVars, inbox, fleetVars, chatVars, traceVars,
          userVars>>

\* ------------------------------------------------------------------------
\* Engine: wire messages
\* ------------------------------------------------------------------------
InitialStateMsg ==
    [type |-> "initial_state", tick |-> tick,
     trucks |-> TruckTable(store, tick), alerts |-> alertLog,
     fleet_risk |-> FleetRisk(store, tick),
     fleet_stats |-> FleetStats(store, tick),
     eta_history |-> etaHist, speed_history |-> speedHist,
     risk_history |-> riskHist]

StreamUpdateMsg(t, ids, new) ==
    [type |-> "stream_update", tick |-> t,
     trucks |-> TruckTable(ids, t), alerts |-> new,
     fleet_risk |-> FleetRisk(ids, t),
     fleet_stats |-> FleetStats(ids, t)]

\* the replies of the AI collaborator: a generated answer with its token
\* accounting, or the rule-based fallback notice
AiReplies ==
    {[type |-> "ai_response", response |-> <<"answer">>,
      token_usage |-> SampleTokenUsage, max_tokens |-> DefaultMaxTokens,
      source |-> "model"],
     [type |-> "ai_response", response |-> <<"notice">>,
      source |-> "rule-based"]}

\* frames besides the tick broadcast and the replies: the liveness response,
\* a frame of an unknown type, text that is not JSON, and snapshots that
\* lack fields of their type
ExtraFrames(t, ids) ==
    {[type |-> "pong"],
     [type |-> "heartbeat"],
     [text |-> "not json"],
     [type |-> "stream_update", tick |-> t],
     [type |-> "stream_update", tick |-> t, trucks |-> TruckTable(ids, t)]}

\* the ticks whose samples the history buffers hold once tick t is reached
HistoryAt(t) == LastN(Range(1, t), HistoryCap)

\* ------------------------------------------------------------------------
\* Client: handlers of script.js
\* ------------------------------------------------------------------------
\* the message has the field f
Has(data, f) == f \in DOMAIN data

\* data.trucks.forEach(t => { truckData[t.truck_id] = t; })
ApplyTrucks(td, trucks) ==
    LET ids == {r.truck_id : r \in trucks}
    IN [id \in (DOMAIN td) \cup ids |->
          IF id \in ids THEN CHOOSE r \in trucks : r.truck_id = id
          ELSE td[id]]

\* variant of ShiftIfOver that drops the newest sample (pop for shift)
ShiftIfOver_DropsNewest(buf) ==
    IF Len(buf) > ChartCap THEN SubSeq(buf, 1, Len(buf) - 1) ELSE buf

\* if (buf.length > 30) buf.shift()
ShiftIfOver(buf) == IF Len(buf) > ChartCap THEN Tail(buf) ELSE buf

\* variant of TrimAlerts that keeps the oldest entries (slice(0, 200))
TrimAlerts_KeepsOldest(list) ==
    IF Len(list) > AlertCap THEN SubSeq(list, 1, AlertCap) ELSE list

\* if (alertsList.length > 200) alertsList = alertsList.slice(-200)
TrimAlerts(list) == IF Len(list) > AlertCap THEN LastN(list, AlertCap) ELSE list

EtaFromHistory(h) ==
    [t |-> h.timestamp, v |-> MathRound(h.avg_eta.num, h.avg_eta.den)]
SpeedFromHistory(h) == [t |-> h.timestamp, v |-> h.avg_speed]
RiskFromHistory(h) == [t |-> h.timestamp, v |-> h.risk_score]

\* the chart sample computed from truckData: Math.round(avgEta)
AvgEta(td) ==
    IF DOMAIN td = {} THEN 0
    ELSE MathRound(SumOver(DOMAIN td, [id \in DOMAIN td |-> td[id].eta_minutes]),
                   Cardinality(DOMAIN td))

\* the pushes and the trimming of updateCharts; the time label of a sample
\* taken while handling a message is the tick of that message
PushSamples(cd, td, data) ==
    [eta   |-> ShiftIfOver(Append(cd.eta, [t |-> data.tick, v |-> AvgEta(td)])),
     speed |-> ShiftIfOver(Append(cd.speed,
                  [t |-> data.tick,
                   v |-> IF Has(data, "fleet_stats")
                         THEN data.fleet_stats.avg_fleet_speed ELSE 0])),
     risk  |-> ShiftIfOver(Append(cd.risk,
                  [t |-> data.tick,
                   v |-> IF Has(data, "fleet_risk")
                         THEN data.fleet_risk.overall_score ELSE 0]))]

\* the temperature-compliance counts of updateCharts
Compliance(td) ==
    LET T == DOMAIN td
        compliant == Cardinality({id \in T : td[id].temperature >= 28
                                             /\ td[id].temperature <= 38})
        warning == Cardinality({id \in T :
                      (td[id].temperature < 28 /\ td[id].temperature >= 25)
                      \/ (td[id].temperature > 38 /\ td[id].temperature <= 42)})
        critical == Cardinality({id \in T : td[id].temperature < 25
                                            \/ td[id].temperature > 42})
    IN <<IF compliant = 0 THEN 1 ELSE compliant, warning, critical>>

\* the history samples handleInitialState pushes before it calls updateCharts
LoadHistory(cd, data) ==
    [eta   |-> IF Has(data, "eta_history")
               THEN cd.eta \o [i \in 1..Len(data.eta_history) |->
                                 EtaFromHistory(data.eta_history[i])]
               ELSE cd.eta,
     speed |-> IF Has(data, "speed_history")
               THEN cd.speed \o [i \in 1..Len(data.speed_history) |->
                                   SpeedFromHistory(data.speed_history[i])]
               ELSE cd.speed,
     risk  |-> IF Has(data, "risk_history")
               THEN cd.risk \o [i \in 1..Len(data.risk_history) |->
                                  RiskFromHistory(data.risk_history[i])]
               ELSE cd.risk]

\* data.alerts || []
AlertsOf(data) == IF Has(data, "alerts") THEN data.alerts ELSE <<>>

\* data.trucks.length and data.trucks.forEach throw a TypeError when the
\* message has no trucks; ws.onmessage catches it
handleInitialState(data) ==
    IF ~Has(data, "trucks")
    THEN UNCHANGED <<fleetVars, lastMsg, maxStreamApplied, received, counted>>
    ELSE LET td == ApplyTrucks(truckData, data.trucks)
         IN /\ truckData' = td
            /\ alertsList' = AlertsOf(data)
            /\ statTotalTrucks' = Cardinality(DOMAIN td)
            /\ chartData' = PushSamples(LoadHistory(chartData, data), td, data)
            /\ tempCompliance' = Compliance(td)
            /\ received' = LastN(received \o AlertsOf(data), AlertCap)
            /\ lastMsg' = data
            /\ UNCHANGED <<totalAlertCount, counted, maxStreamApplied>>

handleStreamUpdate(data) ==
    IF ~Has(data, "trucks")
    THEN UNCHANGED <<fleetVars, lastMsg, maxStreamApplied, received, counted>>
    ELSE LET td == ApplyTrucks(truckData, data.trucks)
         IN /\ truckData' = td
            /\ IF Len(AlertsOf(data)) > 0
               THEN /\ alertsList' = TrimAlerts(alertsList \o data.alerts)
                    /\ totalAlertCount' = totalAlertCount + Len(data.alerts)
               ELSE UNCHANGED <<alertsList, totalAlertCount>>
            /\ chartData' = PushSamples(chartData, td, data)
            /\ tempCompliance' = Compliance(td)
            /\ statTotalTrucks' = Cardinality(DOMAIN td)
            /\ received' = LastN(received \o AlertsOf(data), AlertCap)
            /\ counted' = counted \o AlertsOf(data)
            /\ lastMsg' = data
            /\ maxStreamApplied' = Max(maxStreamApplied, data.tick)

\* the notice of the catch callback of sendAIMessage
UnableToConnect == <<"Unable to connect to the AI service.">>

\* const el = document.getElementById('typing-indicator'); if (el) el.remove()
removeTypingIndicator(n) == IF n > 0 THEN n - 1 ELSE 0

\* data.response || 'No response received.'
ResponseText(data) ==
    IF Has(data, "response") /\ data.response # <<>>
    THEN data.response ELSE <<"No response received.">>

\* Math.min(100, token_usage / (max_tokens || 10000) * 100), as num / den
TokenBarWidth(data) ==
    LET max == IF Has(data, "max_tokens") /\ data.max_tokens # 0
               THEN data.max_tokens ELSE DefaultMaxTokens
    IN IF data.token_usage >= max THEN <<100, 1>>
       ELSE <<100 * data.token_usage, max>>

\* data.source === 'gemini' ? 'GEMINI' : 'RULE-BASED'
SourceBadge(data) ==
    IF Has(data, "source") /\ data.source = "gemini"
    THEN "GEMINI" ELSE "RULE-BASED"

\* variant of handleAIResponse that also empties alertsList
handleAIResponse_ClearsAlerts(data) ==
    /\ typingCount' = removeTypingIndicator(typingCount)
    /\ chatLog' = Append(chatLog,
                         [role |-> "assistant", content |-> ResponseText(data)])
    /\ IF Has(data, "token_usage")
       THEN /\ tokenUsed' = <<data.token_usage>>
            /\ tokenBar' = TokenBarWidth(data)
       ELSE UNCHANGED <<tokenUsed, tokenBar>>
    /\ sourceBadge' = SourceBadge(data)
    /\ lastReply' = data
    /\ alertsList' = <<>>
    /\ UNCHANGED <<truckData, chartData, totalAlertCount, statTotalTrucks,
                   tempCompliance>>

handleAIResponse(data) ==
    /\ typingCount' = removeTypingIndicator(typingCount)
    /\ chatLog' = Append(chatLog,
                         [role |-> "assistant", content |-> ResponseText(data)])
    /\ IF Has(data, "token_usage")
       THEN /\ tokenUsed' = <<data.token_usage>>
            /\ tokenBar' = TokenBarWidth(data)
       ELSE UNCHANGED <<tokenUsed, tokenBar>>
    /\ sourceBadge' = SourceBadge(data)
    /\ lastReply' = data
    /\ UNCHANGED fleetVars

\* data.type, undefined when the message has no type field
TypeOf(data) == IF Has(data, "type") THEN data.type ELSE "undefined"

\* variant of handleMessage that hands a pong to handleAIResponse
handleMessage_PongAsReply(data) ==
    CASE TypeOf(data) = "initial_state" ->
            /\ handleInitialState(data)
            /\ UNCHANGED <<chatVars, lastReply>>
      [] TypeOf(data) = "stream_update" ->
            /\ handleStreamUpdate(data)
            /\ UNCHANGED <<chatVars, lastReply>>
      [] TypeOf(data) \in {"ai_response", "pong"} ->
            /\ handleAIResponse(data)
            /\ UNCHANGED <<lastMsg, maxStreamApplied, received, counted,
                           wsOut, restOut, aiInFlight, restInFlight>>
      [] OTHER -> UNCHANGED <<fleetVars, chatVars, clientTrace>>

handleMessage(data) ==
    CASE TypeOf(data) = "initial_state" ->
            /\ handleInitialState(data)
            /\ UNCHANGED <<chatVars, lastReply>>
      [] TypeOf(data) = "stream_update" ->
            /\ handleStreamUpdate(data)
            /\ UNCHANGED <<chatVars, lastReply>>
      [] TypeOf(data) = "ai_response" ->
            /\ handleAIResponse(data)
            /\ UNCHANGED <<lastMsg, maxStreamApplied, received, counted,
                           wsOut, restOut, aiInFlight, restInFlight>>
      [] OTHER -> UNCHANGED <<fleetVars, chatVars, clientTrace>>

\* ws.onmessage: try { handleMessage(JSON.parse(event.data)) } catch (e) {};
\* a frame that is not JSON is a record with the one field text
onmessage(frame) ==
    /\ lastFrame' = frame
    /\ IF Has(frame, "text")
       THEN UNCHANGED <<fleetVars, chatVars, clientTrace>>
       ELSE handleMessage(frame)

\* new WebSocket(url) of connectWebSocket
connectWebSocket ==
    /\ nSockets < MaxSockets
    /\ nSockets' = nSockets + 1
    /\ ws' = nSockets + 1
    /\ sockState' = [sockState EXCEPT ![nSockets + 1] = "connecting"]

\* variant of SocketIsOpen that omits the readyState test
SocketIsOpen_NoReadyState == ws # 0

\* ws && ws.readyState === WebSocket.OPEN
SocketIsOpen == ws # 0 /\ sockState[ws] = "open"

UserMessages(log) == SelectSeq(log, LAMBDA m : m.role = "user")

\* sendAIMessage with the text typed into the input
sendAIMessage(text) ==
    LET question == Trim(text)
    IN IF question = <<>>
       THEN UNCHANGED chatVars
       ELSE /\ chatLog' = Append(chatLog, [role |-> "user", content |-> question])
            /\ typingCount' = typingCount + 1
            /\ IF SocketIsOpen
               THEN /\ wsOut' = Append(wsOut,
                         [socket |-> ws,
                          data |-> [type |-> "ai_question", question |-> question]])
                    /\ aiInFlight' = Append(aiInFlight,
                         [socket |-> ws, question |-> question])
                    /\ UNCHANGED <<restOut, restInFlight>>
               ELSE /\ restOut' = Append(restOut, [question |-> question])
                    /\ restInFlight' = Append(restInFlight,
                                              [question |-> question])
                    /\ UNCHANGED <<wsOut, aiInFlight>>
            /\ UNCHANGED <<tokenUsed, tokenBar, sourceBadge>>

\* ------------------------------------------------------------------------
\* Initial state
\* ------------------------------------------------------------------------
Init ==
    /\ \E p \in StartPoints : LET t0 == p[1]  a0 == p[2] IN
         /\ tick = t0
         /\ etaHist = [i \in DOMAIN HistoryAt(t0) |->
                          EtaSample(InitialFleet, HistoryAt(t0)[i])]
         /\ speedHist = [i \in DOMAIN HistoryAt(t0) |->
                          SpeedSample(InitialFleet, HistoryAt(t0)[i])]
         /\ riskHist = [i \in DOMAIN HistoryAt(t0) |->
                          RiskSample(InitialFleet, HistoryAt(t0)[i])]
         /\ truckData0 = ApplyTrucks(<<>>, TruckTable(InitialFleet, t0))
         /\ alertsMade = a0
         /\ alertLog = LastN(Range(1, a0), AlertLogCap)
    /\ ticksDone = 0
    /\ store = InitialFleet
    /\ pageReady = FALSE
    /\ ws = 0
    /\ nSockets = 0
    /\ sockState = [s \in SocketIds |-> "unused"]
    /\ inbox = [s \in SocketIds |-> <<>>]
    /\ reconnectTimer = FALSE
    /\ connStatus = "unset"
    /\ truckData = <<>>
    /\ alertsList = <<>>
    /\ chartData = [eta |-> <<>>, speed |-> <<>>, risk |-> <<>>]
    /\ totalAlertCount = 0
    /\ statTotalTrucks = 0
    /\ tempCompliance = <<80, 15, 5>>
    /\ chatLog = <<>>
    /\ typingCount = 0
    /\ wsOut = <<>>
    /\ restOut = <<>>
    /\ tokenUsed = <<>>
    /\ tokenBar = <<>>
    /\ sourceBadge = "unset"
    /\ extraFrames = 0
    /\ aiInFlight = <<>>
    /\ restInFlight = <<>>
    /\ lastReply = [type |-> "none"]
    /\ lastFrame = [type |-> "none"]
    /\ currentUser = 0
    /\ guardPending = <<>>
    /\ appVisible = FALSE
    /\ initCount = 0
    /\ location = "/"
    /\ reportLog = <<>>
    /\ dbCall = [op |-> "none"]
    /\ dbCalls = 0
    /\ dbLog = <<>>
    /\ dbReturn = [op |-> "none"]
    /\ accounts = {1}
    /\ signedIn = 0
    /\ authCall = [fn |-> "none"]
    /\ authCalls = 0
    /\ authLoading = FALSE
    /\ authMessage = "none"
    /\ redirectTimer = FALSE
    /\ pageGuardTimer = FALSE
    /\ authLocation = "/auth.html"
    /\ authLog = <<>>
    /\ lastMsg = [type |-> "none", tick |-> -1]
    /\ maxStreamApplied = -1
    /\ received = <<>>
    /\ counted = <<>>

\* ------------------------------------------------------------------------
\* Actions
\* ------------------------------------------------------------------------
\* one tick of the engine: generate, score, record history, broadcast
Tick ==
    /\ ticksDone < MaxTicks
    /\ \E next \in NextFleets(store) :
         LET k == Cardinality(NewlyFired(store, next, tick))
             new == Range(alertsMade + 1, alertsMade + k)
             msg == StreamUpdateMsg(tick + 1, next, new)
         IN /\ tick' = tick + 1
            /\ ticksDone' = ticksDone + 1
            /\ store' = next
            /\ alertsMade' = alertsMade + k
            /\ alertLog' = LogAppend(alertLog, new)
            /\ etaHist' = HistAppend(etaHist, EtaSample(next, tick + 1))
            /\ speedHist' = HistAppend(speedHist, SpeedSample(next, tick + 1))
            /\ riskHist' = HistAppend(riskHist, RiskSample(next, tick + 1))
            /\ inbox' = [s \in SocketIds |->
                           IF sockState[s] = "open" THEN Append(inbox[s], msg)
                           ELSE inbox[s]]
            /\ truckData0' = ApplyTrucks(truckData0, msg.trucks)
    /\ UNCHANGED <<extraFrames, connVars, fleetVars, chatVars, traceVars>>
    /\ UNCHANGED userVars

\* the callback passed to initAuthGuard: connectWebSocket()
InitDashboard ==
    /\ ~pageReady
    /\ pageReady' = TRUE
    /\ connectWebSocket
    /\ UNCHANGED <<engineVars, inbox, reconnectTimer, connStatus,
                   fleetVars, chatVars, traceVars>>
    /\ UNCHANGED userVars

\* the hub accepts the connection and sends the full snapshot; ws.onopen
WsOpen(s) ==
    /\ sockState[s] = "connecting"
    /\ sockState' = [sockState EXCEPT ![s] = "open"]
    /\ inbox' = [inbox EXCEPT ![s] = <<InitialStateMsg>>]
    /\ connStatus' = "Connected"
    /\ reconnectTimer' = FALSE
    /\ UNCHANGED <<engineVars, pageReady, ws, nSockets,
                   fleetVars, chatVars, traceVars>>
    /\ UNCHANGED userVars

\* ws.onmessage
WsMessage(s) ==
    /\ sockState[s] = "open"
    /\ inbox[s] # <<>>
    /\ inbox' = [inbox EXCEPT ![s] = Tail(@)]
    /\ onmessage(Head(inbox[s]))
    /\ UNCHANGED <<engineVars, connVars>>
    /\ UNCHANGED userVars

\* the connection fails: the browser fires error and then close in one task,
\* so ws.onerror runs and ws.onclose runs right after it
WsError(s) ==
    /\ sockState[s] \in {"connecting", "open"}
    /\ sockState' = [sockState EXCEPT ![s] = "closed"]
    /\ inbox' = [inbox EXCEPT ![s] = <<>>]
    /\ connStatus' = "Disconnected"
    /\ reconnectTimer' = TRUE
    /\ UNCHANGED <<engineVars, pageReady, ws, nSockets,
                   fleetVars, chatVars, traceVars>>
    /\ UNCHANGED userVars

\* variant of WsClose that does not call scheduleReconnect
WsClose_NoReconnect(s) ==
    /\ sockState[s] \in {"connecting", "open"}
    /\ sockState' = [sockState EXCEPT ![s] = "closed"]
    /\ inbox' = [inbox EXCEPT ![s] = <<>>]
    /\ connStatus' = "Disconnected"
    /\ UNCHANGED <<engineVars, pageReady, ws, nSockets, reconnectTimer,
                   fleetVars, chatVars, traceVars>>
    /\ UNCHANGED userVars

\* ws.onclose: setConnectionStatus(false); scheduleReconnect()
WsClose(s) ==
    /\ sockState[s] \in {"connecting", "open"}
    /\ sockState' = [sockState EXCEPT ![s] = "closed"]
    /\ inbox' = [inbox EXCEPT ![s] = <<>>]
    /\ connStatus' = "Disconnected"
    /\ reconnectTimer' = TRUE
    /\ UNCHANGED <<engineVars, pageReady, ws, nSockets,
                   fleetVars, chatVars, traceVars>>
    /\ UNCHANGED userVars

\* the setInterval callback of scheduleReconnect
ReconnectTick ==
    /\ reconnectTimer
    /\ connectWebSocket
    /\ UNCHANGED <<engineVars, pageReady, inbox, reconnectTimer, connStatus,
                   fleetVars, chatVars, traceVars>>
    /\ UNCHANGED userVars

\* the user presses Enter in #ai-input or clicks a suggestion
SendAIMessage(text) ==
    /\ pageReady
    /\ Len(UserMessages(chatLog)) < MaxQuestions
    /\ sendAIMessage(text)
    /\ UNCHANGED <<engineVars, connVars, inbox, fleetVars, traceVars>>
    /\ UNCHANGED userVars

\* the hub hands the first waiting question to the AI collaborator and sends
\* the reply to the session that asked, if that session is still active
AiReply ==
    /\ aiInFlight # <<>>
    /\ aiInFlight' = Tail(aiInFlight)
    /\ \E r \in AiReplies :
         LET s == Head(aiInFlight).socket
         IN inbox' = IF sockState[s] = "open"
                     THEN [inbox EXCEPT ![s] = Append(@, r)]
                     ELSE inbox
    /\ UNCHANGED <<tick, ticksDone, store, alertLog, alertsMade, etaHist,
                   speedHist, riskHist, truckData0, extraFrames, connVars,
                   fleetVars, chatDisplay, wsOut, restOut, restInFlight,
                   traceVars>>
    /\ UNCHANGED userVars

\* the hub sends a frame that is neither a snapshot nor a reply
HubFrame(s) ==
    /\ sockState[s] = "open"
    /\ extraFrames < MaxExtraFrames
    /\ extraFrames' = extraFrames + 1
    /\ \E f \in ExtraFrames(tick, store) :
         inbox' = [inbox EXCEPT ![s] = Append(@, f)]
    /\ UNCHANGED <<tick, ticksDone, store, alertLog, alertsMade, etaHist,
                   speedHist, riskHist, truckData0, connVars, fleetVars,
                   chatVars, traceVars>>
    /\ UNCHANGED userVars

\* the fetch of /api/ai/ask resolves with a JSON body:
\* .then(r => r.json()).then(data => handleAIResponse(data))
RestReply ==
    /\ restInFlight # <<>>
    /\ restInFlight' = Tail(restInFlight)
    /\ \E r \in AiReplies : handleAIResponse(r)
    /\ UNCHANGED <<engineVars, connVars, inbox, wsOut, restOut, aiInFlight,
                   lastMsg, maxStreamApplied, received, counted, lastFrame>>
    /\ UNCHANGED userVars

\* the fetch rejects, or its body is not JSON: the catch callback
RestFail ==
    /\ restInFlight # <<>>
    /\ restInFlight' = Tail(restInFlight)
    /\ typingCount' = removeTypingIndicator(typingCount)
    /\ chatLog' = Append(chatLog,
                         [role |-> "assistant", content |-> UnableToConnect])
    /\ UNCHANGED <<engineVars, connVars, inbox, fleetVars, tokenUsed, tokenBar,
                   sourceBadge, wsOut, restOut, aiInFlight, traceVars>>
    /\ UNCHANGED userVars

\* the user-scoped operations of the Firestore service
DbOps ==
    {"saveUserSettings", "loadUserSettings", "saveChatMessage",
     "loadChatHistory", "clearChatHistory", "saveAlertToDB", "loadSavedAlerts",
     "logActivity", "updateUserProfile", "saveFleetSnapshot"}

\* if (!currentUser) return ...
GuardValue(op) ==
    CASE op = "loadUserSettings" -> "null"
      [] op \in {"loadChatHistory", "loadSavedAlerts"} -> "empty list"
      [] OTHER -> "undefined"

\* the value returned at the end of the try block
SuccessValue(op) ==
    CASE op \in {"saveUserSettings", "updateUserProfile"} -> "true"
      [] op = "loadUserSettings" -> "settings"
      [] op \in {"loadChatHistory", "loadSavedAlerts"} -> "list"
      [] OTHER -> "undefined"

\* the value returned by the catch block
FailureValue(op) ==
    CASE op \in {"saveUserSettings", "updateUserProfile"} -> "false"
      [] op = "loadUserSettings" -> "null"
      [] op \in {"loadChatHistory", "loadSavedAlerts"} -> "empty list"
      [] OTHER -> "undefined"

\* an operation is called: the guard, then the first request to Firestore
DbCall(op) ==
    /\ dbCall.op = "none"
    /\ dbCalls < MaxDbCalls
    /\ dbCalls' = dbCalls + 1
    /\ IF currentUser = 0
       THEN /\ dbReturn' = [op |-> op, value |-> GuardValue(op),
                            thrown |-> FALSE]
            /\ UNCHANGED <<dbCall, dbLog>>
       ELSE /\ dbLog' = Append(dbLog, [op |-> op, user |-> currentUser])
            /\ dbCall' = [op |-> op, at |-> "request"]
            /\ UNCHANGED dbReturn
    /\ UNCHANGED <<guardVars, authPageVars, engineVars, connVars, inbox,
                   fleetVars, chatVars, traceVars>>

\* the awaited request settles; clearChatHistory goes on from its query to
\* batch.commit(), every other operation returns
DbSettle(ok) ==
    /\ dbCall.op # "none"
    /\ IF ~ok
       THEN /\ dbReturn' = [op |-> dbCall.op, value |-> FailureValue(dbCall.op),
                            thrown |-> FALSE]
            /\ dbCall' = [op |-> "none"]
            /\ UNCHANGED dbLog
       ELSE IF dbCall.op = "clearChatHistory" /\ dbCall.at = "request"
       THEN /\ dbLog' = Append(dbLog, [op |-> dbCall.op, user |-> currentUser])
            /\ dbCall' = [op |-> dbCall.op, at |-> "commit"]
            /\ UNCHANGED dbReturn
       ELSE /\ dbReturn' = [op |-> dbCall.op, value |-> SuccessValue(dbCall.op),
                            thrown |-> FALSE]
            /\ dbCall' = [op |-> "none"]
            /\ UNCHANGED dbLog
    /\ UNCHANGED <<dbCalls, guardVars, authPageVars, engineVars, connVars,
                   inbox, fleetVars, chatVars, traceVars>>

\* the remainder of a sequence without its i-th element
Without(seq, i) == SubSeq(seq, 1, i - 1) \o SubSeq(seq, i + 1, Len(seq))

\* the callback script.js passes to initAuthGuard, up to its first await:
\* initNavigation(); initMaps(); initCharts(); connectWebSocket(); ...
onAuthenticated ==
    /\ initCount' = initCount + 1
    /\ pageReady' = TRUE
    /\ connectWebSocket

\* the listener of initAuthGuard up to its await: Firebase reports a user
\* (user # 0) or no user (user = 0)
AuthStateChanged(user) ==
    /\ Len(reportLog) < MaxReports
    /\ reportLog' = Append(reportLog, user)
    /\ IF user # 0
       THEN /\ currentUser' = user
            /\ guardPending' = Append(guardPending, user)
            /\ UNCHANGED location
       ELSE /\ currentUser' = 0
            /\ location' = "/auth.html"
            /\ UNCHANGED guardPending
    /\ UNCHANGED <<appVisible, initCount, dbVars, authPageVars>>
    /\ UNCHANGED <<engineVars, connVars, inbox, fleetVars, chatVars, traceVars>>

\* getUserProfile has settled for one waiting handler: showApp(true) and the
\* callback onAuthenticated(user)
GuardResume(i) ==
    /\ i \in DOMAIN guardPending
    /\ guardPending' = Without(guardPending, i)
    /\ appVisible' = TRUE
    /\ onAuthenticated
    /\ UNCHANGED <<currentUser, location, reportLog, dbVars, authPageVars>>
    /\ UNCHANGED <<engineVars, inbox, reconnectTimer, connStatus, fleetVars,
                   chatVars, traceVars>>

Next ==
    \/ Tick
    \/ InitDashboard
    \/ \E s \in SocketIds : WsOpen(s)
    \/ \E s \in SocketIds : WsMessage(s)
    \/ \E s \in SocketIds : WsError(s)
    \/ \E s \in SocketIds : WsClose(s)
    \/ ReconnectTick

Spec == Init /\ [][Next]_vars

\* the assistant over the connection life cycle
NextChat ==
    \/ InitDashboard
    \/ \E s \in SocketIds : WsOpen(s)
    \/ \E s \in SocketIds : WsError(s)
    \/ \E s \in SocketIds : WsClose(s)
    \/ ReconnectTick
    \/ \E text \in Questions : SendAIMessage(text)
    \/ \E s \in SocketIds : WsMessage(s)
    \/ AiReply
    \/ RestReply
    \/ RestFail

SpecChat == Init /\ [][NextChat]_vars

\* one session that receives every kind of frame: snapshots, replies and
\* the frames of ExtraFrames
NextSession ==
    \/ Tick
    \/ InitDashboard
    \/ \E s \in SocketIds : WsOpen(s)
    \/ \E s \in SocketIds : WsMessage(s)
    \/ \E s \in SocketIds : HubFrame(s)
    \/ SendAIMessage(<<"e", "t", "a">>)
    \/ AiReply

SpecSession == Init /\ [][NextSession]_vars

\* the connection life cycle with its scheduling: the interval keeps firing
\* while it is set, and a connection attempt is eventually accepted or refused
NextReconnect ==
    \/ InitDashboard
    \/ \E s \in SocketIds : WsOpen(s)
    \/ \E s \in SocketIds : WsError(s)
    \/ \E s \in SocketIds : WsClose(s)
    \/ \E s \in SocketIds : WsMessage(s)
    \/ ReconnectTick

Resolved(s) == sockState[s] = "connecting" /\ (WsOpen(s) \/ WsError(s))

SpecReconnect ==
    /\ Init
    /\ [][NextReconnect]_vars
    /\ WF_vars(InitDashboard)
    /\ WF_vars(ReconnectTick)
    /\ \A s \in SocketIds : WF_vars(Resolved(s))

\* ------------------------------------------------------------------------
\* Auth page: handlers of auth.js
\* ------------------------------------------------------------------------
dashboardVars == <<engineVars, connVars, inbox, fleetVars, chatVars, traceVars,
                   guardVars, dbVars>>

EmailFns == {"signUp", "login", "reset"}

\* the first request each function awaits
FirstStep(fn) ==
    CASE fn = "signUp" -> "createUserWithEmailAndPassword"
      [] fn = "login" -> "signInWithEmailAndPassword"
      [] fn = "reset" -> "sendPasswordResetEmail"
      [] fn = "google" -> "signInWithPopup"

\* the outcomes of signInWithPopup
PopupOutcomes ==
    {"user", "no user", "auth/popup-blocked", "auth/popup-closed-by-user",
     "auth/network-request-failed"}

\* an awaited request is fulfilled or rejected
Outcome(ok) == IF ok THEN "ok" ELSE "error"

\* the call with the outcome of the step it awaited
Step(call, outcome) == [call EXCEPT !.path = Append(@, <<call.at, outcome>>)]

\* the call after showAuthMessage(..., type)
Shows(call, type) == [call EXCEPT !.shown = @ \cup {type}]

\* the function returns or throws; finally { showAuthLoading(false) }
Return(call, thrown) ==
    /\ authLog' = Append(authLog,
                     [fn |-> call.fn, user |-> call.user, thrown |-> thrown,
                      shown |-> call.shown, created |-> call.created,
                      path |-> call.path])
    /\ authCall' = [fn |-> "none"]
    /\ authLoading' = FALSE

\* catch (error) { showAuthMessage(..., 'error'); throw error; }
EmailCatch(call) ==
    /\ authMessage' = "error"
    /\ Return(Shows(call, "error"), TRUE)

\* variant of ShowsGoogleError that reports a closed popup too
ShowsGoogleError_Always(code) == TRUE

\* if (error.code !== 'auth/popup-closed-by-user') showAuthMessage(...)
ShowsGoogleError(code) == code # "auth/popup-closed-by-user"

\* the outer catch of signInWithGoogle: nothing is rethrown
GoogleCatch(call, code) ==
    IF ShowsGoogleError(code)
    THEN /\ authMessage' = "error"
         /\ Return(Shows(call, "error"), FALSE)
    ELSE /\ UNCHANGED authMessage
         /\ Return(call, FALSE)

\* showAuthMessage(..., 'success'); setTimeout(() => location.href = '/')
SuccessRedirect(call, thrown) ==
    /\ authMessage' = "success"
    /\ redirectTimer' = TRUE
    /\ Return(Shows(call, "success"), thrown)

\* Firebase Auth signs the user in and notifies the onAuthStateChanged
\* listener of initAuthPageGuard, which starts its timer
SignedIn(user) ==
    /\ signedIn' = user
    /\ accounts' = accounts \cup {user}
    /\ pageGuardTimer' = TRUE

\* the form is submitted or the Google button is clicked: the function runs
\* up to its first await
AuthStart(fn, user) ==
    /\ authCall.fn = "none"
    /\ authCalls < MaxAuthCalls
    /\ authLocation = "/auth.html"
    /\ authCalls' = authCalls + 1
    /\ authLoading' = TRUE
    /\ authCall' = [fn |-> fn, user |-> user, at |-> FirstStep(fn),
                    shown |-> {}, created |-> FALSE, path |-> <<>>]
    /\ UNCHANGED <<accounts, signedIn, authMessage, redirectTimer,
                   pageGuardTimer, authLocation, authLog, dashboardVars>>

\* signUpWithEmail resumes after an await
SignUpSettles(ok) ==
    /\ authCall.fn = "signUp"
    /\ authLocation = "/auth.html"
    /\ LET call == Step(authCall, Outcome(ok))
       IN IF ~ok
          THEN /\ EmailCatch(call)
               /\ UNCHANGED <<accounts, signedIn, redirectTimer, pageGuardTimer>>
          ELSE CASE authCall.at = "createUserWithEmailAndPassword" ->
                      /\ call.user \notin accounts
                      /\ SignedIn(call.user)
                      /\ authCall' = [call EXCEPT !.at = "updateProfile",
                                                  !.created = TRUE]
                      /\ UNCHANGED <<authLoading, authMessage, redirectTimer,
                                     authLog>>
                 [] authCall.at = "updateProfile" ->
                      /\ authCall' = [call EXCEPT !.at = "createUserProfile"]
                      /\ UNCHANGED <<accounts, signedIn, authLoading,
                                     authMessage, redirectTimer, pageGuardTimer,
                                     authLog>>
                 [] authCall.at = "createUserProfile" ->
                      /\ SuccessRedirect(call, FALSE)
                      /\ UNCHANGED <<accounts, signedIn, pageGuardTimer>>
    /\ UNCHANGED <<authCalls, authLocation, dashboardVars>>

\* loginWithEmail resumes after an await
LoginSettles(ok) ==
    /\ authCall.fn = "login"
    /\ authLocation = "/auth.html"
    /\ LET call == Step(authCall, Outcome(ok))
       IN IF ~ok
          THEN /\ EmailCatch(call)
               /\ UNCHANGED <<accounts, signedIn, redirectTimer, pageGuardTimer>>
          ELSE CASE authCall.at = "signInWithEmailAndPassword" ->
                      /\ call.user \in accounts
                      /\ SignedIn(call.user)
                      /\ authCall' = [call EXCEPT !.at = "updateLastLogin"]
                      /\ UNCHANGED <<authLoading, authMessage, redirectTimer,
                                     authLog>>
                 [] authCall.at = "updateLastLogin" ->
                      /\ SuccessRedirect(call, FALSE)
                      /\ UNCHANGED <<accounts, signedIn, pageGuardTimer>>
    /\ UNCHANGED <<authCalls, authLocation, dashboardVars>>

\* resetPassword resumes after its await
ResetSettles(ok) ==
    /\ authCall.fn = "reset"
    /\ authLocation = "/auth.html"
    /\ LET call == Step(authCall, Outcome(ok))
       IN IF ~ok
          THEN EmailCatch(call)
          ELSE /\ authMessage' = "success"
               /\ Return(Shows(call, "success"), FALSE)
    /\ UNCHANGED <<accounts, signedIn, redirectTimer, pageGuardTimer,
                   authCalls, authLocation, dashboardVars>>

\* signInWithGoogle resumes after signInWithPopup
GooglePopupSettles(outcome) ==
    /\ authCall.fn = "google"
    /\ authCall.at = "signInWithPopup"
    /\ authLocation = "/auth.html"
    /\ LET call == Step(authCall, outcome)
       IN CASE outcome = "user" ->
                 /\ SignedIn(call.user)
                 /\ authCall' = [call EXCEPT
                                   !.at = "handleSocialAuthResult",
                                   !.created = call.user \notin accounts]
                 /\ UNCHANGED <<authLoading, authMessage, authLog>>
            [] outcome = "no user" ->
                 /\ Return(call, FALSE)
                 /\ UNCHANGED <<accounts, signedIn, pageGuardTimer, authMessage>>
            [] outcome = "auth/popup-blocked" ->
                 /\ authCall' = [call EXCEPT !.at = "signInWithRedirect"]
                 /\ UNCHANGED <<accounts, signedIn, pageGuardTimer, authLoading,
                                authMessage, authLog>>
            [] OTHER ->
                 /\ GoogleCatch(call, outcome)
                 /\ UNCHANGED <<accounts, signedIn, pageGuardTimer>>
    /\ UNCHANGED <<redirectTimer, authCalls, authLocation, dashboardVars>>

\* handleSocialAuthResult resumes after createUserProfile or updateLastLogin
GoogleProfileSettles(ok) ==
    /\ authCall.fn = "google"
    /\ authCall.at = "handleSocialAuthResult"
    /\ authLocation = "/auth.html"
    /\ LET call == Step(authCall, Outcome(ok))
       IN IF ok
          THEN SuccessRedirect(call, FALSE)
          ELSE /\ GoogleCatch(call, "permission-denied")
               /\ UNCHANGED redirectTimer
    /\ UNCHANGED <<accounts, signedIn, pageGuardTimer, authCalls, authLocation,
                   dashboardVars>>

\* signInWithGoogle resumes after signInWithRedirect
GoogleRedirectSettles(ok) ==
    /\ authCall.fn = "google"
    /\ authCall.at = "signInWithRedirect"
    /\ authLocation = "/auth.html"
    /\ LET call == Step(authCall, Outcome(ok))
       IN IF ok
          THEN /\ Return(call, FALSE)
               /\ UNCHANGED authMessage
          ELSE GoogleCatch(call, "auth/network-request-failed")
    /\ UNCHANGED <<accounts, signedIn, redirectTimer, pageGuardTimer, authCalls,
                   authLocation, dashboardVars>>

\* the timer of a success path fires: window.location.href = '/'
RedirectTimeout ==
    /\ redirectTimer
    /\ authLocation = "/auth.html"
    /\ redirectTimer' = FALSE
    /\ authLocation' = "/"
    /\ UNCHANGED <<accounts, signedIn, authCall, authCalls, authLoading,
                   authMessage, pageGuardTimer, authLog, dashboardVars>>

\* the timer of initAuthPageGuard fires:
\* if (pathname.includes('auth.html')) window.location.href = '/'
PageGuardTimeout ==
    /\ pageGuardTimer
    /\ authLocation = "/auth.html"
    /\ pageGuardTimer' = FALSE
    /\ authLocation' = "/"
    /\ UNCHANGED <<accounts, signedIn, authCall, authCalls, authLoading,
                   authMessage, redirectTimer, authLog, dashboardVars>>

NextAuthPage ==
    \/ \E fn \in EmailFns \cup {"google"}, user \in Users : AuthStart(fn, user)
    \/ \E ok \in BOOLEAN : SignUpSettles(ok)
    \/ \E ok \in BOOLEAN : LoginSettles(ok)
    \/ \E ok \in BOOLEAN : ResetSettles(ok)
    \/ \E outcome \in PopupOutcomes : GooglePopupSettles(outcome)
    \/ \E ok \in BOOLEAN : GoogleProfileSettles(ok)
    \/ \E ok \in BOOLEAN : GoogleRedirectSettles(ok)
    \/ RedirectTimeout
    \/ PageGuardTimeout

SpecAuthPage == Init /\ [][NextAuthPage]_vars

\* the dashboard page under the auth guard, with the Firestore service
NextGuard ==
    \/ \E user \in {0} \cup Users : AuthStateChanged(user)
    \/ \E i \in 1..MaxReports : GuardResume(i)
    \/ \E op \in DbOps : DbCall(op)
    \/ \E ok \in BOOLEAN : DbSettle(ok)

SpecGuard == Init /\ [][NextGuard]_vars

TypeOK ==
    /\ ws \in 0..MaxSockets
    /\ nSockets \in 0..MaxSockets
    /\ totalAlertCount = Len(counted)
    /\ typingCount >= 0


\* ------------------------------------------------------------------------
\* Properties
\* ------------------------------------------------------------------------
Buffers == {"eta", "speed", "risk"}

Last(s) == s[Len(s)]

IsSuffix(s, t) ==
    /\ Len(s) <= Len(t)
    /\ s = SubSeq(t, Len(t) - Len(s) + 1, Len(t))

NoDuplicates(s) == \A i, j \in 1..Len(s) : s[i] = s[j] => i = j

\* this step is the delivery of the first message waiting on socket s
Delivered(s) ==
    /\ sockState' = sockState
    /\ sockState[s] = "open"
    /\ inbox[s] # <<>>
    /\ inbox' = [inbox EXCEPT ![s] = Tail(inbox[s])]

\* C1: after any sequence of initial_state and stream_update messages, each of
\* chartData.eta, chartData.speed and chartData.risk holds at most 30 samples.
C1_ChartBuffersBounded ==
    \A b \in Buffers : Len(chartData[b]) <= ChartCap

\* C2: alertsList never holds more than 200 entries, and what it holds is the
\* most recently received alerts in their arrival order.
C2_AlertsCappedFifo ==
    /\ Len(alertsList) <= AlertCap
    /\ IsSuffix(alertsList, received)

\* a stream_update has pushed a full alertsList over the cap: the oldest alert
\* is gone and the newest one is the last of the message
C2_Witness ==
    /\ lastMsg.type = "stream_update"
    /\ Len(lastMsg.alerts) > 0
    /\ Len(alertsList) = AlertCap
    /\ alertsList[1] = Len(lastMsg.alerts) + 1
    /\ Last(alertsList) = Last(lastMsg.alerts)

\* C3: a client that connected mid-run and has handled initial_state and every
\* stream_update sent since holds the same truckData as the client connected
\* since tick 0.
C3_SessionsConverge ==
    (/\ nSockets = 1
     /\ sockState[1] = "open"
     /\ inbox[1] = <<>>
     /\ lastMsg.tick = tick)
    => truckData = truckData0

\* C4: after a stream_update is handled, every record of truckData comes from
\* that message's truck table, and the average-ETA sample pushed in the same
\* step is the rounded mean of that table.
C4_OneTickOnly ==
    lastMsg.type = "stream_update" =>
        /\ \A id \in DOMAIN truckData : truckData[id] \in lastMsg.trucks
        /\ Last(chartData.eta).v =
              MathRound(SumOver(lastMsg.trucks,
                                [r \in lastMsg.trucks |-> r.eta_minutes]),
                        Cardinality(lastMsg.trucks))

\* C5: after an initial_state is handled, truckData holds as many trucks as the
\* message carries, and that number is shown as total trucks.
C5_InitialTruckCount ==
    lastMsg.type = "initial_state" =>
        /\ Cardinality(DOMAIN truckData) = Cardinality(lastMsg.trucks)
        /\ statTotalTrucks = Cardinality(lastMsg.trucks)

\* C6: snapshots are applied in tick order: the message applied last is never
\* of a tick before that of a stream_update applied earlier.
C6_TickOrder ==
    lastMsg.type # "none" => lastMsg.tick >= maxStreamApplied

\* C7: when a chart buffer holding exactly 30 samples takes the sample of a
\* stream_update, it afterwards holds its former samples 2..30 in order followed
\* by the new sample, whatever the lengths of the other two buffers.
C7_EvictsExactlyOldest ==
    [][\A s \in SocketIds :
         (Delivered(s) /\ Head(inbox[s]).type = "stream_update") =>
            \A b \in Buffers :
               Len(chartData[b]) = ChartCap =>
                  /\ Len(chartData'[b]) = ChartCap
                  /\ SubSeq(chartData'[b], 1, ChartCap - 1) = Tail(chartData[b])
                  /\ Last(chartData'[b]).t = Head(inbox[s]).tick
                  /\ b = "speed" => Last(chartData'[b]).v =
                        Head(inbox[s]).fleet_stats.avg_fleet_speed
                  /\ b = "risk" => Last(chartData'[b]).v =
                        Head(inbox[s]).fleet_risk.overall_score]_vars

\* full buffers have taken the sample of a stream_update: the sample of tick 1
\* is gone, the sample of the update is last
C7_Witness ==
    /\ lastMsg.type = "stream_update"
    /\ \A b \in Buffers :
         /\ Len(chartData[b]) = ChartCap
         /\ chartData[b][1].t = 2
         /\ chartData[b][ChartCap - 1].t = LateTick
         /\ Last(chartData[b]).t = lastMsg.tick

\* C8: after an initial_state is handled, each chart buffer is the converted
\* history array of the message followed by the sample of the current state,
\* trimmed to the newest 30.
C8_InitialHistory ==
    lastMsg.type = "initial_state" =>
        LET expected == PushSamples(
                LoadHistory([eta |-> <<>>, speed |-> <<>>, risk |-> <<>>], lastMsg),
                truckData, lastMsg)
        IN \A b \in Buffers : chartData[b] = LastN(expected[b], ChartCap)

\* C9: no alert appears twice in alertsList, and none is added twice to
\* totalAlertCount.
C9_NoAlertTwice ==
    /\ NoDuplicates(alertsList)
    /\ NoDuplicates(counted)
    /\ totalAlertCount = Len(counted)

\* C10: a submitted non-empty question is transmitted exactly once: over the
\* socket held by ws when that socket is open, otherwise by POST; nothing is
\* transmitted in any other step.
C10_QuestionSentOnce ==
    [][LET asked == Len(UserMessages(chatLog')) - Len(UserMessages(chatLog))
           sent == Len(wsOut') - Len(wsOut)
           posted == Len(restOut') - Len(restOut)
           open == ws # 0 /\ sockState[ws] = "open"
       IN /\ asked \in {0, 1}
          /\ sent + posted = asked
          /\ asked = 1 =>
               /\ Last(chatLog').content # <<>>
               /\ open => /\ sent = 1
                          /\ Last(wsOut') =
                               [socket |-> ws,
                                data |-> [type |-> "ai_question",
                                          question |-> Last(chatLog').content]]
               /\ ~open => /\ posted = 1
                           /\ Last(restOut') =
                                [question |-> Last(chatLog').content]]_vars

\* a question typed with surrounding blanks has gone out over the open socket,
\* and nothing was posted
C10_Witness ==
    /\ Len(wsOut) = 1
    /\ restOut = <<>>
    /\ wsOut[1].data.question = <<"a", " ", "b">>
    /\ Len(UserMessages(chatLog)) = 1

\* a question has been posted while the newest socket was still connecting
C10_WitnessRest ==
    /\ Len(restOut) = 1
    /\ wsOut = <<>>
    /\ ws # 0
    /\ sockState[ws] = "connecting"

\* the sockets that are connecting or open
LiveSockets == {s \in SocketIds : sockState[s] \in {"connecting", "open"}}

OpenSockets == {s \in SocketIds : sockState[s] = "open"}

\* C15: the three counts written to the compliance chart are the numbers of
\* trucks held in the compliant, warning and critical temperature bands, and
\* they sum to the number of trucks held.
C15_CompliancePartition ==
    lastMsg.type # "none" =>
        LET T == DOMAIN truckData
            temp(id) == truckData[id].temperature
        IN /\ tempCompliance[1] =
                 Cardinality({id \in T : 28 <= temp(id) /\ temp(id) <= 38})
           /\ tempCompliance[2] =
                 Cardinality({id \in T : (25 <= temp(id) /\ temp(id) < 28)
                                         \/ (38 < temp(id) /\ temp(id) <= 42)})
           /\ tempCompliance[3] =
                 Cardinality({id \in T : temp(id) < 25 \/ temp(id) > 42})
           /\ tempCompliance[1] + tempCompliance[2] + tempCompliance[3] =
                 Cardinality(T)

\* C17: at every moment at most one WebSocket is connecting or open.
C17_OneLiveSocket == Cardinality(LiveSockets) <= 1

\* C18: while a socket is open no reconnect timer is pending.
C18_NoTimerWhileOpen == OpenSockets # {} => ~reconnectTimer

\* C19: once the indicator has been set, it shows Connected exactly when the
\* client has an open WebSocket and Disconnected otherwise.
C19_StatusMatchesSocket ==
    connStatus # "unset" =>
        /\ connStatus = "Connected" <=> OpenSockets # {}
        /\ connStatus = "Disconnected" <=> OpenSockets = {}

AssistantMessages(log) == SelectSeq(log, LAMBDA m : m.role = "assistant")

\* the replies sent by the hub that wait for delivery
RepliesWaiting ==
    SumOver(SocketIds,
            [s \in SocketIds |->
               Len(SelectSeq(inbox[s], LAMBDA f : TypeOf(f) = "ai_response"))])

\* C11: every submitted question gets an assistant message and loses its
\* typing indicator; so at every moment each question still without an
\* assistant message has something under way that will produce it: a question
\* at the hub, a reply waiting for delivery, or a pending REST request.
C11_EveryQuestionAnswered ==
    LET unanswered == Len(UserMessages(chatLog)) - Len(AssistantMessages(chatLog))
        underWay == Len(aiInFlight) + RepliesWaiting + Len(restInFlight)
    IN /\ unanswered <= underWay
       /\ typingCount <= underWay

\* C12: handling an ai_response leaves truckData, alertsList, chartData and
\* totalAlertCount unchanged, and handling an initial_state or a stream_update
\* leaves the chat messages, the typing indicators, the token-usage display
\* and the source badge unchanged.
C12_ReplyOutOfBand ==
    [][\A s \in SocketIds :
         Delivered(s) =>
            LET type == TypeOf(Head(inbox[s]))
            IN /\ type = "ai_response" =>
                     UNCHANGED <<truckData, alertsList, chartData,
                                 totalAlertCount>>
               /\ type \in {"initial_state", "stream_update"} =>
                     UNCHANGED <<chatLog, typingCount, tokenUsed, tokenBar,
                                 sourceBadge>>]_vars

\* the frame handled last was a reply that set the token display, with alerts
\* held from the snapshots handled before it
C12_Witness ==
    /\ TypeOf(lastFrame) = "ai_response"
    /\ tokenUsed = <<SampleTokenUsage>>
    /\ lastMsg.type = "stream_update"
    /\ alertsList # <<>>
    /\ Len(AssistantMessages(chatLog)) = 1

\* the fields the wire format gives a message of each type
RequiredFields(type) ==
    CASE type = "initial_state" ->
            {"type", "trucks", "alerts", "fleet_risk", "fleet_stats",
             "eta_history", "speed_history", "risk_history"}
      [] type = "stream_update" ->
            {"type", "trucks", "alerts", "fleet_risk", "fleet_stats"}
      [] type = "ai_response" -> {"type", "response", "source"}
      [] OTHER -> {"type"}

Malformed(frame) ==
    \/ Has(frame, "text")
    \/ ~(RequiredFields(TypeOf(frame)) \subseteq DOMAIN frame)

\* C13: a malformed inbound message is dropped: truckData, alertsList,
\* chartData and totalAlertCount are left unchanged and the socket stays open.
C13_MalformedDropped ==
    [][\A s \in SocketIds :
         (Delivered(s) /\ Malformed(Head(inbox[s]))) =>
            /\ UNCHANGED <<truckData, alertsList, chartData, totalAlertCount>>
            /\ sockState'[s] = "open"]_vars

\* C14: after a reply of source "model" the badge marks it as generated by the
\* model, after a reply of source "rule-based" it shows RULE-BASED.
C14_BadgeFollowsSource ==
    /\ (lastReply.type = "ai_response" /\ lastReply.source = "model")
          => sourceBadge # "RULE-BASED"
    /\ (lastReply.type = "ai_response" /\ lastReply.source = "rule-based")
          => sourceBadge = "RULE-BASED"

\* C16: dispatch is by type only: an initial_state, a stream_update and an
\* ai_response each get the effects of their own handler, and a pong or a
\* message of any other type leaves fleet, chat and connection state unchanged.
C16_DispatchByType ==
    [][\A s \in SocketIds :
         (Delivered(s) /\ ~Has(Head(inbox[s]), "text")) =>
            LET data == Head(inbox[s])
                type == TypeOf(data)
            IN /\ (type = "initial_state" /\ Has(data, "trucks")) =>
                     /\ lastMsg' = data
                     /\ alertsList' = AlertsOf(data)
                     /\ UNCHANGED <<totalAlertCount, chatDisplay, lastReply>>
               /\ (type = "stream_update" /\ Has(data, "trucks")) =>
                     /\ lastMsg' = data
                     /\ totalAlertCount' =
                           totalAlertCount + Len(AlertsOf(data))
                     /\ UNCHANGED <<chatDisplay, lastReply>>
               /\ type = "ai_response" =>
                     /\ lastReply' = data
                     /\ Len(chatLog') = Len(chatLog) + 1
                     /\ UNCHANGED <<fleetVars, lastMsg>>
               /\ type \notin {"initial_state", "stream_update", "ai_response"}
                     => UNCHANGED <<fleetVars, chatDisplay, connVars,
                                    lastMsg, lastReply>>]_vars

\* a pong has just been delivered to a client that holds a fleet and has a
\* question waiting for its reply: nothing of it was touched
C16_Witness ==
    /\ lastFrame = [type |-> "pong"]
    /\ lastMsg.type # "none"
    /\ typingCount = 1
    /\ sourceBadge = "unset"

\* from some point on no connection fails or is closed
ServerAccepts ==
    <>[][\A s \in SocketIds : sockState'[s] = "closed" => sockState[s] = "closed"]_vars

\* C20: if the server accepts connections from some point on, then whenever
\* the dashboard has no open socket it eventually has one and shows Connected,
\* unless the MaxSockets connection attempts of the model are used up.
C20_ReconnectsEventually ==
    ServerAccepts =>
        ((pageReady /\ OpenSockets = {})
            ~> \/ OpenSockets # {} /\ connStatus = "Connected"
               \/ nSockets = MaxSockets)

\* a socket opened by the reconnect interval is open after an earlier socket
\* was closed, and the interval has been cleared
C20_Witness ==
    /\ sockState[1] = "closed"
    /\ sockState[2] = "open"
    /\ connStatus = "Connected"
    /\ ~reconnectTimer

\* C21: the dashboard is initialised and a WebSocket is created only after an
\* authenticated user has been reported and not once no user is reported; the
\* report of no user redirects to /auth.html, sets currentUser to null and
\* initialises nothing.
C21_GuardPrecedesAll ==
    [][/\ (initCount' > initCount \/ nSockets' > nSockets) =>
             /\ reportLog # <<>>
             /\ Last(reportLog) # 0
       /\ (Len(reportLog') > Len(reportLog) /\ Last(reportLog') = 0) =>
             /\ location' = "/auth.html"
             /\ currentUser' = 0
             /\ UNCHANGED <<initCount, nSockets, pageReady, appVisible>>]_vars

\* C22: the dashboard initialisation callback runs at most once.
C22_InitAtMostOnce == initCount <= 1

\* C26: no request is issued to Firestore while currentUser is null, and no
\* operation throws: it returns its value of success, or of failure when the
\* guard or the database stops it.
C26_NoAccessWithoutUser ==
    /\ \A i \in DOMAIN dbLog : dbLog[i].user # 0
    /\ dbReturn.op # "none" =>
          /\ ~dbReturn.thrown
          /\ dbReturn.value \in {SuccessValue(dbReturn.op),
                                 FailureValue(dbReturn.op),
                                 GuardValue(dbReturn.op)}

\* the finished call failed at one of its steps
Failed(rec) ==
    \E i \in DOMAIN rec.path : rec.path[i][2] \notin {"ok", "user", "no user"}

\* no call is in flight and every call made so far is a failed call of fns
OnlyFailedCalls(fns) ==
    /\ authCall.fn = "none"
    /\ authLog # <<>>
    /\ \A i \in DOMAIN authLog : authLog[i].fn \in fns /\ Failed(authLog[i])

\* C23: a failed signUpWithEmail, loginWithEmail or resetPassword has shown an
\* error message and no success message and has thrown, and the page is not
\* redirected to the dashboard.
C23_FailureIsReported ==
    /\ \A i \in DOMAIN authLog :
          (authLog[i].fn \in EmailFns /\ Failed(authLog[i])) =>
             /\ "error" \in authLog[i].shown
             /\ "success" \notin authLog[i].shown
             /\ authLog[i].thrown
    /\ OnlyFailedCalls(EmailFns) => authLocation = "/auth.html"

\* C24: a failed signUpWithEmail or loginWithEmail has created no account, and
\* no user is signed in after it.
C24_AllOrNothing ==
    /\ \A i \in DOMAIN authLog :
          (authLog[i].fn \in {"signUp", "login"} /\ Failed(authLog[i])) =>
             ~authLog[i].created
    /\ OnlyFailedCalls({"signUp", "login"}) => signedIn = 0

\* C25: signInWithGoogle never throws; it shows no error message when the
\* popup was blocked and the redirect went through or when the user closed the
\* popup, it shows one after every other failure, and the loading indicator
\* is off once it has returned.
C25_GoogleOutcomes ==
    /\ \A i \in DOMAIN authLog :
          authLog[i].fn = "google" =>
             LET rec == authLog[i]
                 last == rec.path[Len(rec.path)]
                 blocked == rec.path[1][2] = "auth/popup-blocked"
             IN /\ ~rec.thrown
                /\ (blocked /\ last[2] = "ok") => "error" \notin rec.shown
                /\ last[2] = "auth/popup-closed-by-user" =>
                      "error" \notin rec.shown
                /\ (Failed(rec) /\ last[2] # "auth/popup-closed-by-user"
                                /\ ~(blocked /\ last[2] = "ok")) =>
                      "error" \in rec.shown
    /\ authCall.fn = "none" => ~authLoading

\* signInWithGoogle has returned after a blocked popup and a failed redirect:
\* the error is shown, nothing was thrown and the indicator is off
C25_Witness ==
    /\ authCall.fn = "none"
    /\ ~authLoading
    /\ \E i \in DOMAIN authLog :
          /\ authLog[i].fn = "google"
          /\ authLog[i].path = <<<<"signInWithPopup", "auth/popup-blocked">>,
                                 <<"signInWithRedirect", "error">>>>
          /\ authLog[i].shown = {"error"}
          /\ ~authLog[i].thrown

====
